---- MODULE Spec2Model ----
(***************************************************************************)
(* Model of the coinchecker client core (src/client.rs): nonce generation, *)
(* signing, request construction and dispatch, response decoding, for      *)
(* calls issued on one shared client (Rc<RefCell<Client>>).                *)
(*                                                                         *)
(* Strings are sequences of tokens (a token is one character or one word   *)
(* of unreserved characters), so that concatenation, decimal formatting    *)
(* and form encoding are computed rather than assumed.                     *)
(***************************************************************************)
EXTENDS Integers, Sequences, FiniteSets, TLC

(* ------------------------------ bounds --------------------------------- *)

\* the system clock takes MaxClock distinct values at or after the epoch
MaxClock == 2
\* the monotonic clock (Instant) runs from 0 to MaxInstant
MaxInstant == 1
\* strings handed to SortOrder::from_str have up to MaxLen characters
MaxLen == 4
\* get_nonce returns up to MaxNonces nonces while the hand-overs are traced
MaxNonces == 3

(* ----------------------------- constants ------------------------------- *)

\* Option<T>
None == [some |-> FALSE]
Some(v) == [some |-> TRUE, v |-> v]
\* the value of an error field when there is no error
NoError == ""

API_BASE == "https://coincheck.com"

NONCE == "ACCESS-NONCE"
SIGNATURE == "ACCESS-SIGNATURE"
KEY == "ACCESS-KEY"
CONTENT_TYPE == "content-type"
CONTENT_TYPE_VALUE_JSON == "application/json"

AuthHeaderNames == {NONCE, SIGNATURE, KEY}

\* the tasks that issue calls on the shared client
Procs == {1, 2}

\* reqwest::Method values a caller can pass; PUT stands for every method
\* other than GET, POST and DELETE
Methods == {"GET", "POST", "DELETE", "PUT"}

\* the three entry points of the client
Entries == {"request", "request_and_get_json", "request_and_get_text"}

\* readings of SystemTime::now() in microseconds relative to UNIX_EPOCH;
\* -1 is a clock set before the epoch, the others straddle a change in the
\* number of decimal digits
SystemTimes == {-1} \cup {8 + i : i \in 1..MaxClock}

Instants == 0..MaxInstant

\* credentials handed to Client::shared_new
AccessKeys == {None, Some("ak"), Some("a\nk")}
SecretKeys == {None, Some("sk")}

\* paths handed to the dispatch; ":x" makes base + path an URL with an
\* invalid port
Paths == {"/api/exchange/orders", ":x"}

\* parameter containers (HashMap<&str, &str>) handed to the dispatch, as
\* sets of <<key, value>>
ParamMaps ==
    { {},
      { <<"pair", <<"btc_jpy">> >>, <<"memo", <<"a", " ", "&">> >> } }

\* HTTP statuses the remote can answer with
Statuses == {200, 399, 400, 599, 600}

\* what reading the body yields: bytes that are a JSON document of the
\* target shape, bytes that are not, or an I/O error while reading
Bodies == {"json_of_shape", "malformed", "io_error"}

(* ------------------------ strings and numbers -------------------------- *)

Digit(d) ==
    CASE d = 0 -> "0" [] d = 1 -> "1" [] d = 2 -> "2" [] d = 3 -> "3"
      [] d = 4 -> "4" [] d = 5 -> "5" [] d = 6 -> "6" [] d = 7 -> "7"
      [] d = 8 -> "8" [] d = 9 -> "9"

DigitValue(c) ==
    CASE c = "0" -> 0 [] c = "1" -> 1 [] c = "2" -> 2 [] c = "3" -> 3
      [] c = "4" -> 4 [] c = "5" -> 5 [] c = "6" -> 6 [] c = "7" -> 7
      [] c = "8" -> 8 [] c = "9" -> 9

RECURSIVE to_string(_)
\* u128::to_string: decimal digits, most significant first, no padding
to_string(n) ==
    IF n < 10 THEN <<Digit(n)>>
    ELSE to_string(n \div 10) \o <<Digit(n % 10)>>

RECURSIVE ParseDecimal(_)
\* the number a decimal string denotes
ParseDecimal(s) ==
    IF Len(s) = 0 THEN 0
    ELSE 10 * ParseDecimal(SubSeq(s, 1, Len(s) - 1)) + DigitValue(s[Len(s)])

\* form_urlencoded::byte_serialize on one token: unreserved words pass,
\* a space becomes "+", every other byte becomes %XX
EncodeToken(c) ==
    CASE c = " " -> <<"+">>
      [] c = "&" -> <<"%", "2", "6">>
      [] c = "=" -> <<"%", "3", "D">>
      [] c = "+" -> <<"%", "2", "B">>
      [] OTHER -> <<c>>

RECURSIVE Encode(_)
Encode(s) ==
    IF Len(s) = 0 THEN <<>>
    ELSE EncodeToken(Head(s)) \o Encode(Tail(s))

RECURSIVE EncodePairs(_)
\* form_urlencoded::Serializer::extend_pairs: k=v joined by "&", in the
\* order the iterator yields the pairs
EncodePairs(pairs) ==
    IF Len(pairs) = 0 THEN <<>>
    ELSE LET p == Head(pairs)
             kv == Encode(<<p[1]>>) \o <<"=">> \o Encode(p[2])
         IN  IF Len(pairs) = 1 THEN kv
             ELSE kv \o <<"&">> \o EncodePairs(Tail(pairs))

\* the orders in which a HashMap holding the pairs of m can yield them
IterationOrders(m) ==
    { s \in [1..Cardinality(m) -> m] : \A i, j \in 1..Cardinality(m) : i # j => s[i] # s[j] }

\* Option<&Params> values a caller can pass, with the iteration order the
\* container has at that call
ParamsValues ==
    {None} \cup { Some(s) : s \in UNION { IterationOrders(m) : m \in ParamMaps } }

(* ------------------------------- Url ----------------------------------- *)

\* Url::parse fails when base + path is not an URL
UrlParses(path) == path # ":x"

\* Url::parse(&url) / Url::parse_with_params(&url, params); as_str() of the
\* result
UrlParse(path, params) ==
    IF params = None THEN <<API_BASE, path>>
    ELSE <<API_BASE, path, "?">> \o EncodePairs(params.v)

(* ----------------------------- headers --------------------------------- *)

EmptyHeaders == <<>>

\* HeaderMap::insert
Insert(headers, name, value) ==
    [n \in (DOMAIN headers) \cup {name} |-> IF n = name THEN value ELSE headers[n]]

\* HeaderValue::from_str / str::parse::<HeaderValue> fail on control bytes
ValidHeaderValue(v) == v # "a\nk"

(* ------------------------- nonce and signature ------------------------- *)

\* Client::get_nonce, given the reading of SystemTime::now()
get_nonce(now) ==
    IF now >= 0
    THEN [tag |-> "Ok", value |-> to_string(now)]
    ELSE [tag |-> "Err", value |-> "SystemTime before UNIX EPOCH!"]

\* HMAC-SHA256 as an injective function of key and message, and the
\* lowercase hex form of a digest
HmacSha256(key, message) == <<"hmac-sha256", key, message>>
hex_encode(digest) == <<"hex", digest>>

\* Client::get_signature; Hmac::new_from_slice accepts a key of any length,
\* so the Err arm is never taken
get_signature(secret_key_, message) ==
    [tag |-> "Ok", value |-> hex_encode(HmacSha256(secret_key_, message))]

\* set_auth_headers with unwrap_or_default() in place of unwrap() on the keys
set_auth_headers_default(access_key_, secret_key_, headers, url, now) ==
    LET nonce == get_nonce(now) IN
    IF nonce.tag = "Err"
    THEN [tag |-> "Err", error |-> nonce.value, headers |-> headers, nonces |-> <<>>]
    ELSE
      LET sk == IF secret_key_ = None THEN "" ELSE secret_key_.v
          ak == IF access_key_ = None THEN "" ELSE access_key_.v
          signature == hex_encode(HmacSha256(sk, nonce.value \o url))
      IN  [tag |-> "Ok", error |-> NoError,
           headers |-> Insert(Insert(Insert(headers, NONCE, nonce.value),
                                     SIGNATURE, signature), KEY, ak),
           nonces |-> <<nonce.value>>]

\* set_auth_headers signing the URL without its query string
set_auth_headers_no_query(access_key_, secret_key_, headers, url, now) ==
    LET nonce == get_nonce(now) IN
    IF nonce.tag = "Err" \/ access_key_ = None \/ secret_key_ = None
    THEN [tag |-> "Err", error |-> "", headers |-> headers, nonces |-> <<>>]
    ELSE
      LET message == nonce.value \o SubSeq(url, 1, 2)
          signature == hex_encode(HmacSha256(secret_key_.v, message))
      IN  [tag |-> "Ok", error |-> NoError,
           headers |-> Insert(Insert(Insert(headers, NONCE, nonce.value),
                                     SIGNATURE, signature), KEY, access_key_.v),
           nonces |-> <<nonce.value>>]

\* set_auth_headers sending the secret key in ACCESS-KEY
set_auth_headers_secret_as_key(access_key_, secret_key_, headers, url, now) ==
    LET nonce == get_nonce(now) IN
    IF nonce.tag = "Err"
    THEN [tag |-> "Err", error |-> nonce.value, headers |-> headers, nonces |-> <<>>]
    ELSE IF secret_key_ = None \/ access_key_ = None
    THEN [tag |-> "Panic", error |-> "unwrap on None", headers |-> headers,
          nonces |-> <<nonce.value>>]
    ELSE
      LET signature == get_signature(secret_key_.v, nonce.value \o url)
      IN  [tag |-> "Ok", error |-> NoError,
           headers |-> Insert(Insert(Insert(headers, NONCE, nonce.value),
                                     SIGNATURE, signature.value), KEY, secret_key_.v),
           nonces |-> <<nonce.value>>]

\* Client::set_auth_headers, given the reading of the system clock.
\* tag: Ok, Err (returned error) or Panic (unwrap of None / of an invalid
\* header value); nonces: the nonces get_nonce returned during the call
set_auth_headers(access_key_, secret_key_, headers, url, now) ==
    LET nonce == get_nonce(now) IN
    IF nonce.tag = "Err"
    THEN [tag |-> "Err", error |-> nonce.value, headers |-> headers, nonces |-> <<>>]
    ELSE
      LET h1 == Insert(headers, NONCE, nonce.value)
          message == nonce.value \o url
      IN
      IF secret_key_ = None
      THEN [tag |-> "Panic", error |-> "unwrap on None", headers |-> h1,
            nonces |-> <<nonce.value>>]
      ELSE
        LET signature == get_signature(secret_key_.v, message) IN
        IF signature.tag = "Err"
        THEN [tag |-> "Err", error |-> signature.value, headers |-> h1,
              nonces |-> <<nonce.value>>]
        ELSE
          LET h2 == Insert(h1, SIGNATURE, signature.value) IN
          IF access_key_ = None
          THEN [tag |-> "Panic", error |-> "unwrap on None", headers |-> h2,
                nonces |-> <<nonce.value>>]
          ELSE IF ~ValidHeaderValue(access_key_.v)
          THEN [tag |-> "Panic", error |-> "unwrap on InvalidHeaderValue",
                headers |-> h2, nonces |-> <<nonce.value>>]
          ELSE [tag |-> "Ok", error |-> NoError,
                headers |-> Insert(h2, KEY, access_key_.v),
                nonces |-> <<nonce.value>>]

(* ------------------------------ dispatch ------------------------------- *)

\* the match on the method with an arm for PUT as well
SupportedMethods_with_put == {"GET", "POST", "DELETE", "PUT"}

\* the methods the match in Client::request has a sending arm for
SupportedMethods == {"GET", "POST", "DELETE"}

\* auth_step with the use_auth test widened to "or the client holds keys"
auth_step_when_keys(access_key_, secret_key_, url, now, use_auth) ==
    IF use_auth \/ (access_key_ # None /\ secret_key_ # None)
    THEN set_auth_headers(access_key_, secret_key_, EmptyHeaders, url, now)
    ELSE [tag |-> "Ok", error |-> NoError, headers |-> EmptyHeaders, nonces |-> <<>>]

\* auth_step without the use_auth test
auth_step_always(access_key_, secret_key_, url, now, use_auth) ==
    set_auth_headers(access_key_, secret_key_, EmptyHeaders, url, now)

\* auth_step obtaining a nonce before the use_auth test
auth_step_nonce_first(access_key_, secret_key_, url, now, use_auth) ==
    IF use_auth
    THEN set_auth_headers(access_key_, secret_key_, EmptyHeaders, url, now)
    ELSE [tag |-> "Ok", error |-> NoError, headers |-> EmptyHeaders,
          nonces |-> <<get_nonce(now).value>>]

\* the headers of Client::request after the use_auth step
auth_step(access_key_, secret_key_, url, now, use_auth) ==
    IF use_auth
    THEN set_auth_headers(access_key_, secret_key_, EmptyHeaders, url, now)
    ELSE [tag |-> "Ok", error |-> NoError, headers |-> EmptyHeaders, nonces |-> <<>>]

\* content_type_step taking POST only for a method with a body
content_type_step_post_only(headers, method) ==
    IF method = "POST"
    THEN Insert(headers, CONTENT_TYPE, CONTENT_TYPE_VALUE_JSON)
    ELSE headers

\* the headers of Client::request after the content-type step
content_type_step(headers, method) ==
    IF method = "POST" \/ method = "DELETE"
    THEN Insert(headers, CONTENT_TYPE, CONTENT_TYPE_VALUE_JSON)
    ELSE headers

\* Client::request from its entry up to the first await: the request handed
\* to the transport (Send), the error returned (Err) or the abort (Panic)
request_until_send(access_key_, secret_key_, now, method, path, params, use_auth) ==
    IF ~UrlParses(path)
    THEN [tag |-> "Panic", error |-> "unwrap on ParseError", req |-> None,
          nonces |-> <<>>]
    ELSE
      LET url == UrlParse(path, params)
          auth == auth_step(access_key_, secret_key_, url, now, use_auth)
      IN
      IF auth.tag # "Ok"
      THEN [tag |-> "Panic", error |-> auth.error, req |-> None,
            nonces |-> auth.nonces]
      ELSE
        LET headers == content_type_step(auth.headers, method) IN
        IF method \in SupportedMethods
        THEN [tag |-> "Send", error |-> NoError,
              req |-> Some([method |-> method, url |-> url, headers |-> headers]),
              nonces |-> auth.nonces]
        ELSE [tag |-> "Err", error |-> "unsupported http method type",
              req |-> None, nonces |-> auth.nonces]

\* error_for_status_ref testing is_server_error() only
error_for_status_ref_5xx(status) == status >= 500 /\ status <= 599

\* Response::error_for_status_ref: is_client_error() || is_server_error()
error_for_status_ref(status) == status >= 400 /\ status <= 599

\* the value res.json::<T>() / res.text() return for a body
decode(entry, body) ==
    IF body = "io_error"
    THEN [tag |-> "Err", kind |-> "Body"]
    ELSE IF entry = "request_and_get_json"
    THEN IF body = "json_of_shape"
         THEN [tag |-> "Ok", kind |-> "json", value |-> body]
         ELSE [tag |-> "Err", kind |-> "Decode"]
    ELSE [tag |-> "Ok", kind |-> "text", value |-> body]

(* ------------------------------- types -------------------------------- *)

\* Currency and Currency::as_str
Currencies == {"Jpy", "Btc"}
Currency_as_str(c) == CASE c = "Jpy" -> "JPY" [] c = "Btc" -> "BTC"

\* CoinPair and CoinPair::as_str
CoinPairs == {"BtcJpy", "EtcJpy", "FctJpy", "MonaJpy", "PltJpy"}
CoinPair_as_str(pair) ==
    CASE pair = "BtcJpy" -> "btc_jpy"
      [] pair = "EtcJpy" -> "etc_jpy"
      [] pair = "FctJpy" -> "fct_jpy"
      [] pair = "MonaJpy" -> "mona_jpy"
      [] pair = "PltJpy" -> "plt_jpy"

\* BaseOrderType and BaseOrderType::as_str
BaseOrderTypes == {"Buy", "Sell"}
BaseOrderType_as_str(base) == CASE base = "Buy" -> "buy" [] base = "Sell" -> "sell"

\* OrderType: Limit(base), MarketBuy, MarketSell
OrderTypes == {<<"Limit", base>> : base \in BaseOrderTypes}
                  \cup {<<"MarketBuy", "">>, <<"MarketSell", "">>}
LimitBuy == <<"Limit", "Buy">>
LimitSell == <<"Limit", "Sell">>
MarketBuy == <<"MarketBuy", "">>
MarketSell == <<"MarketSell", "">>

\* OrderType::as_str
OrderType_as_str(order_type) ==
    CASE order_type[1] = "Limit" -> BaseOrderType_as_str(order_type[2])
      [] order_type[1] = "MarketBuy" -> "market_buy"
      [] order_type[1] = "MarketSell" -> "market_sell"

\* PriceType values, <<whole, tenths>> standing for whole + tenths / 10:
\* those passed as rate or price, as amount, and as stop_loss_rate
Rates == {<<1, 0>>}
Amounts == {<<2, 5>>}
StopLossRates == {<<3, 0>>}

\* f64::to_string: the shortest decimal form, without a fraction when the
\* value is whole
PriceType_to_string(price) ==
    to_string(price[1]) \o (IF price[2] = 0 THEN <<>> ELSE <<".", Digit(price[2])>>)

\* IdType values (u64; their string form is to_string)
Ids == {12}

\* i32 values of Pagination.limit and i32::to_string
Limits == {-1, 25}
i32_to_string(n) == IF n < 0 THEN <<"-">> \o to_string(-n) ELSE to_string(n)

RECURSIVE Join(_)
\* the string whose pieces are the elements of s (format! of a Display value)
Join(s) == IF Len(s) = 0 THEN "" ELSE Head(s) \o Join(Tail(s))

\* SortOrder
SortOrders == {"Asc", "Desc"}

\* SortOrder::as_str, a string being the sequence of its characters
SortOrder_as_str(v) ==
    CASE v = "Asc" -> <<"a", "s", "c">>
      [] v = "Desc" -> <<"d", "e", "s", "c">>

\* <SortOrder as Display>::fmt through to_string(): writes as_str()
SortOrder_to_string(v) == SortOrder_as_str(v)

\* from_str taking any string that starts with a recognised token
SortOrder_from_str_prefix(s) ==
    IF Len(s) >= 3 /\ SubSeq(s, 1, 3) = SortOrder_as_str("Asc")
    THEN [tag |-> "Ok", value |-> "Asc"]
    ELSE IF Len(s) >= 4 /\ SubSeq(s, 1, 4) = SortOrder_as_str("Desc")
    THEN [tag |-> "Ok", value |-> "Desc"]
    ELSE [tag |-> "Err", value |-> "undefined SortOrder type"]

\* <SortOrder as FromStr>::from_str
SortOrder_from_str(s) ==
    IF s = SortOrder_as_str("Asc")
    THEN [tag |-> "Ok", value |-> "Asc"]
    ELSE IF s = SortOrder_as_str("Desc")
    THEN [tag |-> "Ok", value |-> "Desc"]
    ELSE [tag |-> "Err", value |-> "undefined SortOrder type"]

\* the characters strings handed to from_str are made of, and these strings
Chars == {"a", "s", "c", "d", "e", "A", " "}
Strings == UNION { [1..n -> Chars] : n \in 0..MaxLen }

(* ------------------------------ facades ------------------------------- *)

Facades == {"Public", "Order", "Account", "WithdrawsJpy"}

\* USE_AUTH with the constant of WithdrawsJpy set to false
USE_AUTH_withdraws_open(facade) ==
    CASE facade = "Public" -> FALSE
      [] facade = "Order" -> TRUE
      [] facade = "Account" -> TRUE
      [] facade = "WithdrawsJpy" -> FALSE

\* Public::USE_AUTH, Order::USE_AUTH, Account::USE_AUTH, WithdrawsJpy::USE_AUTH
USE_AUTH(facade) ==
    CASE facade = "Public" -> FALSE
      [] facade = "Order" -> TRUE
      [] facade = "Account" -> TRUE
      [] facade = "WithdrawsJpy" -> TRUE

\* a &str of one piece, as a parameter value
Str(piece) == <<piece>>

\* the arguments a facade method hands to request_and_get_json; params is
\* None or Some of the HashMap as a set of <<key, value>>
Dispatch(method, path, params, use_auth) ==
    [method |-> method, path |-> path, params |-> params, use_auth |-> use_auth]

\* Public
ticker == Dispatch("GET", "/api/ticker", None, USE_AUTH("Public"))
trades(pair) ==
    Dispatch("GET", "/api/trades",
             Some({<<"pair", Str(CoinPair_as_str(pair))>>}), USE_AUTH("Public"))
order_book == Dispatch("GET", "/api/order_books", None, USE_AUTH("Public"))
order_rate_from_amount(order_type, pair, amount) ==
    Dispatch("GET", "/api/exchange/orders/rate",
             Some({<<"order_type", Str(BaseOrderType_as_str(order_type))>>,
                   <<"pair", Str(CoinPair_as_str(pair))>>,
                   <<"amount", PriceType_to_string(amount)>>}),
             USE_AUTH("Public"))
order_rate_from_price(order_type, pair, price) ==
    Dispatch("GET", "/api/exchange/orders/rate",
             Some({<<"order_type", Str(BaseOrderType_as_str(order_type))>>,
                   <<"pair", Str(CoinPair_as_str(pair))>>,
                   <<"price", PriceType_to_string(price)>>}),
             USE_AUTH("Public"))
marketplace_buy_rate(pair) ==
    Dispatch("GET", "/api/rate/" \o CoinPair_as_str(pair), None, USE_AUTH("Public"))

\* Order
new_any(params) ==
    Dispatch("POST", "/api/exchange/orders", Some(params), USE_AUTH("Order"))
new_limit_buy(pair, rate, amount) ==
    new_any({<<"pair", Str(CoinPair_as_str(pair))>>,
             <<"order_type", Str(OrderType_as_str(LimitBuy))>>,
             <<"rate", PriceType_to_string(rate)>>,
             <<"amount", PriceType_to_string(amount)>>})
new_limit_sell(pair, rate, amount) ==
    new_any({<<"pair", Str(CoinPair_as_str(pair))>>,
             <<"order_type", Str(OrderType_as_str(LimitSell))>>,
             <<"rate", PriceType_to_string(rate)>>,
             <<"amount", PriceType_to_string(amount)>>})
new_stop_limit_buy(pair, rate, amount, stop_loss_rate) ==
    new_any({<<"pair", Str(CoinPair_as_str(pair))>>,
             <<"order_type", Str(OrderType_as_str(LimitBuy))>>,
             <<"rate", PriceType_to_string(rate)>>,
             <<"amount", PriceType_to_string(amount)>>,
             <<"stop_loss_rate", PriceType_to_string(stop_loss_rate)>>})
new_stop_limit_sell(pair, rate, amount, stop_loss_rate) ==
    new_any({<<"pair", Str(CoinPair_as_str(pair))>>,
             <<"order_type", Str(OrderType_as_str(LimitSell))>>,
             <<"rate", PriceType_to_string(rate)>>,
             <<"amount", PriceType_to_string(amount)>>,
             <<"stop_loss_rate", PriceType_to_string(stop_loss_rate)>>})
\* new_market_buy passing the amount under the key of a sell order
new_market_buy_as_amount(pair, amount_jpy) ==
    new_any({<<"pair", Str(CoinPair_as_str(pair))>>,
             <<"order_type", Str(OrderType_as_str(MarketBuy))>>,
             <<"amount", PriceType_to_string(amount_jpy)>>})
new_market_buy(pair, amount_jpy) ==
    new_any({<<"pair", Str(CoinPair_as_str(pair))>>,
             <<"order_type", Str(OrderType_as_str(MarketBuy))>>,
             <<"market_buy_amount", PriceType_to_string(amount_jpy)>>})
new_market_sell(pair, amount) ==
    new_any({<<"pair", Str(CoinPair_as_str(pair))>>,
             <<"order_type", Str(OrderType_as_str(MarketSell))>>,
             <<"amount", PriceType_to_string(amount)>>})
new_stop_market_buy(pair, amount_jpy, stop_loss_rate) ==
    new_any({<<"pair", Str(CoinPair_as_str(pair))>>,
             <<"order_type", Str(OrderType_as_str(MarketBuy))>>,
             <<"market_buy_amount", PriceType_to_string(amount_jpy)>>,
             <<"stop_loss_rate", PriceType_to_string(stop_loss_rate)>>})
new_stop_market_sell(pair, amount, stop_loss_rate) ==
    new_any({<<"pair", Str(CoinPair_as_str(pair))>>,
             <<"order_type", Str(OrderType_as_str(MarketSell))>>,
             <<"amount", PriceType_to_string(amount)>>,
             <<"stop_loss_rate", PriceType_to_string(stop_loss_rate)>>})
opens == Dispatch("GET", "/api/exchange/orders/opens", None, USE_AUTH("Order"))
cancel(id) ==
    Dispatch("DELETE", "/api/exchange/orders/" \o Join(to_string(id)), None,
             USE_AUTH("Order"))
cancel_status(id) ==
    Dispatch("GET", "/api/exchange/orders/cancel_status",
             Some({<<"id", to_string(id)>>}), USE_AUTH("Order"))
transactions ==
    Dispatch("GET", "/api/exchange/orders/transactions", None, USE_AUTH("Order"))
\* pagination: [limit, order, starting_after, ending_before]
transactions_pagination(pagination) ==
    Dispatch("GET", "/api/exchange/orders/transactions_pagination",
             Some({<<"limit", i32_to_string(pagination.limit)>>,
                   <<"order", SortOrder_to_string(pagination.order)>>}
                  \cup (IF pagination.starting_after = None THEN {}
                        ELSE {<<"starting_after", to_string(pagination.starting_after.v)>>})
                  \cup (IF pagination.ending_before = None THEN {}
                        ELSE {<<"ending_before", to_string(pagination.ending_before.v)>>})),
             USE_AUTH("Order"))

\* Account
balance == Dispatch("GET", "/api/accounts/balance", None, USE_AUTH("Account"))
sends ==
    Dispatch("GET", "/api/send_money",
             Some({<<"currency", Str(Currency_as_str("Btc"))>>}), USE_AUTH("Account"))
deposits ==
    Dispatch("GET", "/api/deposit_money",
             Some({<<"currency", Str(Currency_as_str("Btc"))>>}), USE_AUTH("Account"))
info == Dispatch("GET", "/api/accounts", None, USE_AUTH("Account"))

\* WithdrawsJpy
bank_accounts == Dispatch("GET", "/api/bank_accounts", None, USE_AUTH("WithdrawsJpy"))
withdraws == Dispatch("GET", "/api/withdraws", None, USE_AUTH("WithdrawsJpy"))

(* ------------------------------- state --------------------------------- *)

VARIABLES
    access_key,         \* Client.access_key: Option<String>
    secret_key,         \* Client.secret_key: Option<String>
    last_request_time,  \* Client.last_request_time: Instant
    borrowed,           \* the task holding the RefCell's exclusive borrow, 0 if none
    instant,            \* the monotonic clock read by Instant::now()
    call,               \* per task: the call it has in progress
    last_nonce,         \* the value get_nonce returned last, if it returned one,
                        \* and whether a request carrying it was handed to the
                        \* transport
    endpoint,           \* the facade method through which Client::request was
                        \* entered last, with its arguments; None when it was
                        \* entered directly or not at all
    sort_order,         \* the SortOrder conversion applied last, with its
                        \* argument and its value
    transport           \* what the client handed to the transport so far:
                        \* the count of the nonces get_nonce returned, the
                        \* nonces of the requests handed over, each by its
                        \* place in the order of generation, and the reading
                        \* of the monotonic clock at the last hand-over

vars == <<access_key, secret_key, last_request_time, borrowed, instant, call,
          last_nonce, endpoint, sort_order, transport>>

NoResult == [tag |-> "None"]

\* pc: idle, send (suspended in send().await, the request in flight), body
\* (suspended in json().await / text().await), done (outcome delivered).
\* The arguments and the request are held up to the send, which consumes
\* them; after it the call holds the response only.  now is the reading of
\* the system clock the call took, nsent the number of requests it handed to
\* the transport, decoded whether it went on to read and decode the body.
IdleCall ==
    [pc |-> "idle", entry |-> "", method |-> "", path |-> "", params |-> None,
     use_auth |-> FALSE, now |-> None, req |-> None, nsent |-> 0, resp |-> None,
     decoded |-> FALSE, result |-> NoResult]

\* nothing handed to the transport yet.  generated: the number of nonces
\* get_nonce returned; carried[p]: the place in the order of generation of
\* the nonce in the request task p handed over last (0 if it has none);
\* handed: those places in the order of the hand-overs; sent_at: the reading
\* of the monotonic clock when a request was handed over last
NoTransport ==
    [generated |-> 0, carried |-> [p \in Procs |-> 0], handed |-> <<>>,
     sent_at |-> None]

\* no SortOrder conversion applied yet
NoConversion == [op |-> "none", value |-> None, string |-> <<>>, result |-> NoResult]

\* Client::shared_new: the credentials as given, the marker set to now
Init ==
    /\ access_key \in AccessKeys
    /\ secret_key \in SecretKeys
    /\ instant = 0
    /\ last_request_time = instant
    /\ borrowed = 0
    /\ call = [p \in Procs |-> IdleCall]
    /\ last_nonce = None
    /\ endpoint = None
    /\ sort_order = NoConversion
    /\ transport = NoTransport

\* the ACCESS-NONCE header of a request, if it has one
NonceOf(req) ==
    IF NONCE \in DOMAIN req.headers THEN {req.headers[NONCE]} ELSE {}

\* the outcome of every finished call has been taken by its caller
Observed == \A q \in Procs : call[q].pc # "done"

\* A task starts a call while another call holds the client:
\* client.borrow_mut() panics (already borrowed) before anything else runs
Conflict(p) ==
    /\ call[p].pc = "idle"
    /\ Observed
    /\ borrowed # 0
    /\ call' = [call EXCEPT ![p].pc = "done",
                  ![p].result = [tag |-> "Panic", error |-> "already borrowed"]]
    /\ UNCHANGED <<access_key, secret_key, last_request_time, borrowed, instant,
                   last_nonce, endpoint, sort_order,
                   transport>>

\* whether Client::request reads the system clock for these arguments
ReadsClock(path, use_auth) == UrlParses(path) /\ use_auth

\* the readings of the system clock a call with these arguments can take
\* (one placeholder when it takes none)
ClockReadings(path, use_auth) ==
    IF ReadsClock(path, use_auth) THEN SystemTimes ELSE {0}

\* Call writing the marker only when it hands a request to the transport
Call_marker_when_sent(p, entry, method, path, params, use_auth, now) ==
    /\ call[p].pc = "idle"
    /\ Observed
    /\ borrowed = 0
    /\ LET started == [IdleCall EXCEPT !.entry = entry, !.method = method,
                          !.path = path, !.params = params,
                          !.use_auth = use_auth,
                          !.now = IF ReadsClock(path, use_auth) THEN Some(now)
                                  ELSE None]
           out == request_until_send(access_key, secret_key, now, method,
                                     path, params, use_auth)
       IN
       /\ last_request_time' = IF out.tag = "Send" THEN instant
                                ELSE last_request_time
       /\ last_nonce' = IF out.nonces = <<>> THEN last_nonce
                        ELSE Some([value |-> out.nonces[Len(out.nonces)],
                                   sent |-> out.tag = "Send"])
       /\ IF out.tag = "Send"
          THEN /\ call' = [call EXCEPT ![p] =
                             [started EXCEPT !.pc = "send", !.req = out.req,
                                             !.nsent = 1]]
               /\ borrowed' = p
          ELSE /\ call' = [call EXCEPT ![p] =
                             [started EXCEPT !.pc = "done",
                                !.result = [tag |-> out.tag, error |-> out.error]]]
               /\ UNCHANGED borrowed
    /\ UNCHANGED <<access_key, secret_key, instant, sort_order>>

\* Call writing the marker after the URL is built and the authentication
\* headers are set, just before the match on the method
Call_marker_after_auth(p, entry, method, path, params, use_auth, now) ==
    /\ call[p].pc = "idle"
    /\ Observed
    /\ borrowed = 0
    /\ LET started == [IdleCall EXCEPT !.entry = entry, !.method = method,
                          !.path = path, !.params = params,
                          !.use_auth = use_auth,
                          !.now = IF ReadsClock(path, use_auth) THEN Some(now)
                                  ELSE None]
           out == request_until_send(access_key, secret_key, now, method,
                                     path, params, use_auth)
       IN
       /\ last_request_time' = IF out.tag = "Panic" THEN last_request_time
                                ELSE instant
       /\ last_nonce' = IF out.nonces = <<>> THEN last_nonce
                        ELSE Some([value |-> out.nonces[Len(out.nonces)],
                                   sent |-> out.tag = "Send"])
       /\ IF out.tag = "Send"
          THEN /\ call' = [call EXCEPT ![p] =
                             [started EXCEPT !.pc = "send", !.req = out.req,
                                             !.nsent = 1]]
               /\ borrowed' = p
          ELSE /\ call' = [call EXCEPT ![p] =
                             [started EXCEPT !.pc = "done",
                                !.result = [tag |-> out.tag, error |-> out.error]]]
               /\ UNCHANGED borrowed
    /\ UNCHANGED <<access_key, secret_key, instant, sort_order>>

\* A task starts a call: client.borrow_mut() followed by one of the entry
\* points, run up to its first await (the send).  now is the reading of
\* SystemTime::now() the call takes, if it takes one.
Call(p, entry, method, path, params, use_auth, now) ==
    /\ call[p].pc = "idle"
    /\ Observed
    /\ borrowed = 0
    /\ LET started == [IdleCall EXCEPT !.entry = entry, !.method = method,
                          !.path = path, !.params = params,
                          !.use_auth = use_auth,
                          !.now = IF ReadsClock(path, use_auth) THEN Some(now)
                                  ELSE None]
           out == request_until_send(access_key, secret_key, now, method,
                                     path, params, use_auth)
       IN
       /\ last_request_time' = instant
       /\ last_nonce' = IF out.nonces = <<>> THEN last_nonce
                        ELSE Some([value |-> out.nonces[Len(out.nonces)],
                                   sent |-> out.tag = "Send"])
       /\ IF out.tag = "Send"
          THEN /\ call' = [call EXCEPT ![p] =
                             [started EXCEPT !.pc = "send", !.req = out.req,
                                             !.nsent = 1]]
               /\ borrowed' = p
          ELSE /\ call' = [call EXCEPT ![p] =
                             [started EXCEPT !.pc = "done",
                                !.result = [tag |-> out.tag, error |-> out.error]]]
               /\ UNCHANGED borrowed
    /\ UNCHANGED <<access_key, secret_key, instant, sort_order>>

\* A task starts a call on the Client itself, through no facade method
DirectCall(p, entry, method, path, params, use_auth, now) ==
    /\ Call(p, entry, method, path, params, use_auth, now)
    /\ endpoint' = None
    /\ UNCHANGED transport

\* what a call holds once send().await has completed
AfterSend(c) == [IdleCall EXCEPT !.entry = c.entry, !.nsent = c.nsent]

\* SendFails sending the request once more before giving up
SendFails_retry(p) ==
    /\ call[p].pc = "send"
    /\ IF call[p].nsent < 2
       THEN /\ call' = [call EXCEPT ![p].nsent = @ + 1]
            /\ UNCHANGED borrowed
       ELSE /\ call' = [call EXCEPT ![p] =
                          [AfterSend(call[p]) EXCEPT !.pc = "done",
                             !.result = [tag |-> "Err", kind |-> "Request"]]]
            /\ borrowed' = 0
    /\ UNCHANGED <<access_key, secret_key, last_request_time, instant,
                   last_nonce, endpoint, sort_order,
                   transport>>

\* SendFails backing off instead of returning: the call gives up the client
\* and, once the client is free again, hands the request it holds to the
\* transport a second time
SendFails_backoff(p) ==
    /\ call[p].pc = "send"
    /\ call[p].nsent < 2
    /\ IF borrowed = p
       THEN /\ borrowed' = 0
            /\ UNCHANGED <<call, transport>>
       ELSE /\ borrowed = 0
            /\ borrowed' = p
            /\ call' = [call EXCEPT ![p].nsent = @ + 1]
            /\ transport' =
                  [transport EXCEPT
                     !.handed = IF transport.carried[p] = 0 THEN @
                                ELSE Append(@, transport.carried[p]),
                     !.sent_at = Some(instant)]
    /\ UNCHANGED <<access_key, secret_key, last_request_time, instant,
                   last_nonce, endpoint, sort_order>>

\* send().await yields a transport error: request returns it
SendFails(p) ==
    /\ call[p].pc = "send"
    /\ call' = [call EXCEPT ![p] =
                  [AfterSend(call[p]) EXCEPT !.pc = "done",
                     !.result = [tag |-> "Err", kind |-> "Request"]]]
    /\ borrowed' = 0
    /\ UNCHANGED <<access_key, secret_key, last_request_time, instant,
                   last_nonce, endpoint, sort_order,
                   transport>>

\* request_after_send reading the body into the status error
request_after_send_with_body(resp) ==
    IF error_for_status_ref(resp.status)
    THEN [tag |-> "Err", kind |-> "Status", status |-> resp.status,
          body |-> resp.body]
    ELSE [tag |-> "Ok", kind |-> "response", value |-> resp]

\* the result of Client::request once send().await yielded a response
request_after_send(resp) ==
    IF error_for_status_ref(resp.status)
    THEN [tag |-> "Err", kind |-> "Status", status |-> resp.status]
    ELSE [tag |-> "Ok", kind |-> "response", value |-> resp]

\* Respond giving up the borrow of the client before the body is read
Respond_releases_borrow(p, status, body) ==
    /\ call[p].pc = "send"
    /\ LET resp == [status |-> status, body |-> body]
           res == request_after_send(resp)
           c == [AfterSend(call[p]) EXCEPT !.resp = Some(resp)]
       IN
       IF res.tag = "Err" \/ call[p].entry = "request"
       THEN call' = [call EXCEPT ![p] = [c EXCEPT !.pc = "done", !.result = res]]
       ELSE call' = [call EXCEPT ![p] = [c EXCEPT !.pc = "body"]]
    /\ borrowed' = 0
    /\ UNCHANGED <<access_key, secret_key, last_request_time, instant,
                   last_nonce, endpoint, sort_order,
                   transport>>

\* send().await yields a response with the given status; body is what
\* reading its body will yield
Respond(p, status, body) ==
    /\ call[p].pc = "send"
    /\ LET resp == [status |-> status, body |-> body]
           res == request_after_send(resp)
           c == [AfterSend(call[p]) EXCEPT !.resp = Some(resp)]
       IN
       IF res.tag = "Err" \/ call[p].entry = "request"
       THEN /\ call' = [call EXCEPT ![p] = [c EXCEPT !.pc = "done", !.result = res]]
            /\ borrowed' = 0
       ELSE /\ call' = [call EXCEPT ![p] = [c EXCEPT !.pc = "body"]]
            /\ UNCHANGED borrowed
    /\ UNCHANGED <<access_key, secret_key, last_request_time, instant,
                   last_nonce, endpoint, sort_order,
                   transport>>

\* res.json().await / res.text().await complete
Body(p) ==
    /\ call[p].pc = "body"
    /\ call' = [call EXCEPT ![p].pc = "done", ![p].decoded = TRUE,
                  ![p].result = decode(call[p].entry, call[p].resp.v.body)]
    /\ borrowed' = 0
    /\ UNCHANGED <<access_key, secret_key, last_request_time, instant,
                   last_nonce, endpoint, sort_order,
                   transport>>

\* the caller drops the future of a suspended call
Cancel(p) ==
    /\ call[p].pc \in {"send", "body"}
    /\ call' = [call EXCEPT ![p] =
                  [AfterSend(call[p]) EXCEPT !.pc = "done",
                     !.result = [tag |-> "Dropped"]]]
    /\ borrowed' = 0
    /\ UNCHANGED <<access_key, secret_key, last_request_time, instant,
                   last_nonce, endpoint, sort_order,
                   transport>>

\* the caller takes the outcome of a finished call; with the outcome of a
\* call that had entered the client, the facade method's future is gone
Return(p) ==
    /\ call[p].pc = "done"
    /\ call' = [call EXCEPT ![p] = IdleCall]
    /\ endpoint' = IF call[p].entry = "" THEN endpoint ELSE None
    /\ UNCHANGED <<access_key, secret_key, last_request_time, borrowed, instant,
                   last_nonce, sort_order, transport>>

\* monotonic time passes
Advance ==
    /\ instant < MaxInstant
    /\ instant' = instant + 1
    /\ UNCHANGED <<access_key, secret_key, last_request_time, borrowed, call,
                   last_nonce, endpoint, sort_order,
                   transport>>

\* the tasks whose borrow_mut() on the client succeeds
Ready == {p \in Procs : call[p].pc = "idle" /\ Observed /\ borrowed = 0}

Next ==
    \/ \E p \in Procs : Conflict(p)
    \/ \E p \in Ready, entry \in Entries, method \in Methods, path \in Paths,
          params \in ParamsValues, use_auth \in BOOLEAN :
          \E now \in ClockReadings(path, use_auth) :
             DirectCall(p, entry, method, path, params, use_auth, now)
    \/ \E p \in Procs : SendFails(p)
    \/ \E p \in Procs, status \in Statuses, body \in Bodies : Respond(p, status, body)
    \/ \E p \in Procs : Body(p)
    \/ \E p \in Procs : Cancel(p)
    \/ \E p \in Procs : Return(p)
    \/ Advance

Spec == Init /\ [][Next]_vars

(* ---------------------------- facade calls ---------------------------- *)

\* Pagination values
Paginations ==
    [limit : Limits, order : SortOrders,
     starting_after : {None} \cup {Some(id) : id \in Ids},
     ending_before : {None} \cup {Some(id) : id \in Ids}]

\* the pairs facade methods are called with
InvokedPairs == {"BtcJpy", "PltJpy"}

\* the calls of facade methods a program can make, with their arguments
Invocations ==
    {[facade |-> "Public", m |-> m] : m \in {"ticker", "order_book"}}
    \cup {[facade |-> "Public", m |-> m, pair |-> pair] :
            m \in {"trades", "marketplace_buy_rate"}, pair \in InvokedPairs}
    \cup {[facade |-> "Public", m |-> "order_rate_from_amount", order_type |-> t,
           pair |-> pair, amount |-> a] :
            t \in BaseOrderTypes, pair \in InvokedPairs, a \in Amounts}
    \cup {[facade |-> "Public", m |-> "order_rate_from_price", order_type |-> t,
           pair |-> pair, price |-> r] :
            t \in BaseOrderTypes, pair \in InvokedPairs, r \in Rates}
    \cup {[facade |-> "Order", m |-> "new_any", params |-> params] : params \in ParamMaps}
    \cup {[facade |-> "Order", m |-> m, pair |-> pair, rate |-> r, amount |-> a] :
            m \in {"new_limit_buy", "new_limit_sell"},
            pair \in InvokedPairs, r \in Rates, a \in Amounts}
    \cup {[facade |-> "Order", m |-> m, pair |-> pair, rate |-> r, amount |-> a,
           stop_loss_rate |-> sl] :
            m \in {"new_stop_limit_buy", "new_stop_limit_sell"},
            pair \in InvokedPairs, r \in Rates, a \in Amounts, sl \in StopLossRates}
    \cup {[facade |-> "Order", m |-> m, pair |-> pair, amount |-> a] :
            m \in {"new_market_buy", "new_market_sell"},
            pair \in InvokedPairs, a \in Amounts}
    \cup {[facade |-> "Order", m |-> m, pair |-> pair, amount |-> a,
           stop_loss_rate |-> sl] :
            m \in {"new_stop_market_buy", "new_stop_market_sell"},
            pair \in InvokedPairs, a \in Amounts, sl \in StopLossRates}
    \cup {[facade |-> "Order", m |-> m] : m \in {"opens", "transactions"}}
    \cup {[facade |-> "Order", m |-> m, id |-> id] :
            m \in {"cancel", "cancel_status"}, id \in Ids}
    \cup {[facade |-> "Order", m |-> "transactions_pagination", pagination |-> pg] :
            pg \in Paginations}
    \cup {[facade |-> "Account", m |-> m] :
            m \in {"balance", "sends", "deposits", "info"}}
    \cup {[facade |-> "WithdrawsJpy", m |-> m] : m \in {"bank_accounts", "withdraws"}}

\* what the facade method called by i hands to request_and_get_json
Invoke(i) ==
    CASE i.m = "ticker" -> ticker
      [] i.m = "trades" -> trades(i.pair)
      [] i.m = "order_book" -> order_book
      [] i.m = "order_rate_from_amount" ->
            order_rate_from_amount(i.order_type, i.pair, i.amount)
      [] i.m = "order_rate_from_price" ->
            order_rate_from_price(i.order_type, i.pair, i.price)
      [] i.m = "marketplace_buy_rate" -> marketplace_buy_rate(i.pair)
      [] i.m = "new_any" -> new_any(i.params)
      [] i.m = "new_limit_buy" -> new_limit_buy(i.pair, i.rate, i.amount)
      [] i.m = "new_limit_sell" -> new_limit_sell(i.pair, i.rate, i.amount)
      [] i.m = "new_stop_limit_buy" ->
            new_stop_limit_buy(i.pair, i.rate, i.amount, i.stop_loss_rate)
      [] i.m = "new_stop_limit_sell" ->
            new_stop_limit_sell(i.pair, i.rate, i.amount, i.stop_loss_rate)
      [] i.m = "new_market_buy" -> new_market_buy(i.pair, i.amount)
      [] i.m = "new_market_sell" -> new_market_sell(i.pair, i.amount)
      [] i.m = "new_stop_market_buy" ->
            new_stop_market_buy(i.pair, i.amount, i.stop_loss_rate)
      [] i.m = "new_stop_market_sell" ->
            new_stop_market_sell(i.pair, i.amount, i.stop_loss_rate)
      [] i.m = "opens" -> opens
      [] i.m = "cancel" -> cancel(i.id)
      [] i.m = "cancel_status" -> cancel_status(i.id)
      [] i.m = "transactions" -> transactions
      [] i.m = "transactions_pagination" -> transactions_pagination(i.pagination)
      [] i.m = "balance" -> balance
      [] i.m = "sends" -> sends
      [] i.m = "deposits" -> deposits
      [] i.m = "info" -> info
      [] i.m = "bank_accounts" -> bank_accounts
      [] i.m = "withdraws" -> withdraws

\* new_with_keys built the client (a Coincheck, with public and private
\* facades) rather than new_without_keys (a CoincheckNoAuth, public only)
IsCoincheck == access_key # None /\ secret_key # None

\* the Option<&Params> the client can see for the params a facade method
\* built, with the iteration order of the HashMap
Orderings(params) ==
    IF params = None THEN {None} ELSE {Some(o) : o \in IterationOrders(params.v)}

\* params yields the pairs of the HashMap built, each once
IsOrdering(params, built) ==
    IF built = None THEN params = None
    ELSE /\ params # None
         /\ Len(params.v) = Cardinality(built.v)
         /\ {params.v[k] : k \in 1..Len(params.v)} = built.v

\* the facade calls with the iteration order their HashMap has
OrderedInvocations ==
    UNION { {[i |-> i, params |-> o, path |-> Invoke(i).path,
              use_auth |-> Invoke(i).use_auth] : o \in Orderings(Invoke(i).params)} :
            i \in Invocations }

\* A task calls a facade method: client.borrow_mut() followed by
\* request_and_get_json with the arguments the method built
FacadeCall(p, i, params, now) ==
    /\ i.facade = "Public" \/ IsCoincheck
    /\ LET d == Invoke(i) IN
       /\ IsOrdering(params, d.params)
       /\ Call(p, "request_and_get_json", d.method, d.path, params, d.use_auth, now)
    /\ endpoint' = Some(i)
    /\ UNCHANGED transport

\* Coincheck::new_with_keys / Coincheck::new_without_keys
FacadeInit == Init /\ (access_key = None <=> secret_key = None)

FacadeNext ==
    \/ \E p \in Procs : Conflict(p)
    \/ \E p \in Ready, c \in OrderedInvocations :
          \E now \in ClockReadings(c.path, c.use_auth) :
             FacadeCall(p, c.i, c.params, now)
    \/ \E p \in Procs : SendFails(p)
    \/ \E p \in Procs, status \in Statuses, body \in Bodies : Respond(p, status, body)
    \/ \E p \in Procs : Body(p)
    \/ \E p \in Procs : Cancel(p)
    \/ \E p \in Procs : Return(p)
    \/ Advance

FacadeSpec == FacadeInit /\ [][FacadeNext]_vars

(* ------------------------- SortOrder conversions ----------------------- *)

\* the state of the client and of the facades
client_vars == <<access_key, secret_key, last_request_time, borrowed, instant,
                 call, last_nonce, endpoint, transport>>

\* from_str is applied to the string a caller holds
Parse ==
    /\ sort_order.op = "str"
    /\ sort_order' = [sort_order EXCEPT !.op = "from_str",
                         !.result = SortOrder_from_str(sort_order.string)]
    /\ UNCHANGED client_vars

\* to_string is applied to the value a caller holds
Format ==
    /\ sort_order.op = "value"
    /\ sort_order' = [sort_order EXCEPT !.op = "to_string",
                         !.string = SortOrder_to_string(sort_order.value.v)]
    /\ UNCHANGED client_vars

\* from_str is applied to the string to_string returned
ParseFormatted ==
    /\ sort_order.op = "to_string"
    /\ sort_order' = [sort_order EXCEPT !.op = "round_trip",
                         !.result = SortOrder_from_str(sort_order.string)]
    /\ UNCHANGED client_vars

\* a caller holds a string or a SortOrder value
SortInputs ==
    {[NoConversion EXCEPT !.op = "str", !.string = s] : s \in Strings}
    \cup {[NoConversion EXCEPT !.op = "value", !.value = Some(v)] : v \in SortOrders}

\* a client without keys that no call was made on, and the input
SortInit ==
    /\ access_key = None
    /\ secret_key = None
    /\ instant = 0
    /\ last_request_time = instant
    /\ borrowed = 0
    /\ call = [p \in Procs |-> IdleCall]
    /\ last_nonce = None
    /\ endpoint = None
    /\ transport = NoTransport
    /\ sort_order \in SortInputs

SortNext ==
    \/ Parse
    \/ Format
    \/ ParseFormatted

SortSpec == SortInit /\ [][SortNext]_vars

(* ------------------------- traced hand-overs -------------------------- *)

\* what the transport has been handed once task p has run Client::request
\* up to its first await with the outcome out, at the reading at of the
\* monotonic clock
HandOver(tr, p, out, at) ==
    LET n == tr.generated + Len(out.nonces)
        sent == out.tag = "Send"
        carries == sent /\ out.nonces # <<>>
    IN
    [generated |-> n,
     carried |-> [tr.carried EXCEPT ![p] = IF carries THEN n ELSE 0],
     handed |-> IF carries THEN Append(tr.handed, n) ELSE tr.handed,
     sent_at |-> IF sent THEN Some(at) ELSE tr.sent_at]

\* A task starts a call on the Client itself, and what it generates and
\* hands over is recorded
TracedCall(p, entry, method, path, params, use_auth, now) ==
    /\ transport.generated < MaxNonces
    /\ Call(p, entry, method, path, params, use_auth, now)
    /\ endpoint' = None
    /\ transport' =
          HandOver(transport, p,
                   request_until_send(access_key, secret_key, now, method,
                                      path, params, use_auth),
                   instant)

\* the calls traced: with and without authentication, a method the match
\* sends and one it does not, a path that forms a URL and one that does
\* not, no parameters
TracedMethods == {"GET", "PUT"}
TracedPaths == Paths
TracedEntries == {"request_and_get_json"}
TracedStatuses == {200, 400}
TracedBodies == {"json_of_shape"}

TraceNext ==
    \/ \E p \in Procs : Conflict(p)
    \/ \E p \in Ready, entry \in TracedEntries, method \in TracedMethods,
          path \in TracedPaths, use_auth \in BOOLEAN :
          \E now \in ClockReadings(path, use_auth) :
             TracedCall(p, entry, method, path, None, use_auth, now)
    \/ \E p \in Procs : SendFails(p)
    \/ \E p \in Procs, status \in TracedStatuses, body \in TracedBodies :
          Respond(p, status, body)
    \/ \E p \in Procs : Body(p)
    \/ \E p \in Procs : Cancel(p)
    \/ \E p \in Procs : Return(p)
    \/ Advance

TraceSpec == Init /\ [][TraceNext]_vars

(* ------------------------------ properties ----------------------------- *)

HasKeys == access_key # None /\ secret_key # None

\* C1: a request handed to the transport by a dispatch with use_auth = false
\* carries none of ACCESS-KEY, ACCESS-NONCE, ACCESS-SIGNATURE, whatever the
\* method, path, params and credentials
C1_NoAuthHeadersWithoutAuth ==
    \A p \in Procs :
        (call[p].pc = "send" /\ ~call[p].use_auth)
            => (DOMAIN call[p].req.v.headers) \cap AuthHeaderNames = {}

\* a client holding both keys has a request in flight that was dispatched
\* with use_auth = false
C1_Witness ==
    \E p \in Procs :
        /\ call[p].pc = "send"
        /\ ~call[p].use_auth
        /\ HasKeys
        /\ call[p].params # None

\* C2: a dispatch with use_auth = true on a client lacking a key is over as
\* soon as it starts, with an abort and without a request handed to the
\* transport
C2_NoRequestWithoutKeys ==
    \A p \in Procs :
        (call[p].pc # "idle" /\ call[p].use_auth /\ ~HasKeys)
            => /\ call[p].pc = "done"
               /\ call[p].result.tag = "Panic"
               /\ call[p].nsent = 0
               /\ call[p].req = None
               /\ borrowed # p

\* an authenticated dispatch with a well-formed URL and a supported method
\* has ended on a client without secret key
C2_Witness ==
    \E p \in Procs :
        /\ call[p].pc = "done"
        /\ call[p].use_auth
        /\ secret_key = None
        /\ access_key # None
        /\ UrlParses(call[p].path)
        /\ call[p].method = "GET"
        /\ call[p].now = Some(9)

\* the message a signature was computed over
SignedMessage(signature) == signature[2][3]

\* C3: the message signed for an authenticated request in flight is the
\* ACCESS-NONCE value followed by exactly the URL in flight, and that URL
\* is base + path + the query string encoded in the order the container
\* yielded the parameters
C3_SignedMessageIsNonceThenUrl ==
    \A p \in Procs :
        (call[p].pc = "send" /\ call[p].use_auth)
            => LET req == call[p].req.v IN
               /\ SignedMessage(req.headers[SIGNATURE]) = req.headers[NONCE] \o req.url
               /\ req.headers[SIGNATURE] =
                    hex_encode(HmacSha256(secret_key.v, req.headers[NONCE] \o req.url))
               /\ SubSeq(req.url, 1, 2) = <<API_BASE, call[p].path>>
               /\ call[p].params # None =>
                    SubSeq(req.url, 3, Len(req.url)) =
                        <<"?">> \o EncodePairs(call[p].params.v)

\* an authenticated request is in flight whose two parameters were yielded
\* with the one that needs escaping first
C3_Witness ==
    \E p \in Procs :
        /\ call[p].pc = "send"
        /\ call[p].use_auth
        /\ call[p].params # None
        /\ Len(call[p].params.v) = 2
        /\ call[p].params.v[1][1] = "memo"
        /\ call[p].req.v.url =
             <<API_BASE, "/api/exchange/orders", "?", "memo", "=", "a", "+",
               "%", "2", "6", "&", "pair", "=", "btc_jpy">>

UnsupportedMethodError == [tag |-> "Err", error |-> "unsupported http method type"]

\* the URL step and the use_auth step of a started call ran to their end
ReachesMethodMatch(c) ==
    /\ UrlParses(c.path)
    /\ c.use_auth => /\ HasKeys
                     /\ ValidHeaderValue(access_key.v)
                     /\ c.now.v >= 0

\* C4 as stated: a dispatch with a well-formed path and a method other than
\* GET, POST, DELETE ends with the unsupported-method error and no request
\* sent, for every use_auth, params and credential state
C4_UnsupportedMethodError ==
    \A p \in Procs :
        (call[p].pc # "idle" /\ call[p].method \in Methods \ SupportedMethods
           /\ UrlParses(call[p].path))
            => /\ call[p].pc = "done"
               /\ call[p].result = UnsupportedMethodError
               /\ call[p].nsent = 0

\* C4 amended: a dispatch with a method other than GET, POST, DELETE never
\* hands a request to the transport; it ends with the unsupported-method
\* error when the URL and use_auth steps ran to their end, and with an abort
\* in one of these steps otherwise
C4_UnsupportedMethodNeverSends ==
    \A p \in Procs :
        (call[p].pc # "idle" /\ call[p].method \in Methods \ {"GET", "POST", "DELETE"})
            => /\ call[p].pc = "done"
               /\ call[p].nsent = 0
               /\ call[p].req = None
               /\ borrowed # p
               /\ IF ReachesMethodMatch(call[p])
                  THEN call[p].result = UnsupportedMethodError
                  ELSE call[p].result.tag = "Panic"

\* an authenticated dispatch with method PUT on a client holding keys has
\* ended with the unsupported-method error
C4_Witness ==
    \E p \in Procs :
        /\ call[p].pc = "done"
        /\ call[p].method = "PUT"
        /\ call[p].use_auth
        /\ call[p].params # None
        /\ call[p].result = UnsupportedMethodError

IsErrorStatus(status) == status >= 400 /\ status <= 599

\* C5: a call that got a response with a 4xx/5xx status is over, its result
\* is the status error carrying that status, and the body was not decoded;
\* this for request, request_and_get_json and request_and_get_text
C5_ErrorStatusIsError ==
    \A p \in Procs :
        (call[p].resp # None /\ IsErrorStatus(call[p].resp.v.status))
            => /\ call[p].pc = "done"
               /\ call[p].result.tag = "Err"
               /\ call[p].result.kind = "Status"
               /\ call[p].result.status = call[p].resp.v.status
               /\ ~call[p].decoded

\* request_and_get_json got a 400 whose body would have decoded
C5_Witness ==
    \E p \in Procs :
        /\ call[p].pc = "done"
        /\ call[p].entry = "request_and_get_json"
        /\ call[p].resp = Some([status |-> 400, body |-> "json_of_shape"])

C7_OneRequestPerCall ==
    \A p \in Procs :
        /\ call[p].nsent <= 1
        /\ (call[p].pc \in {"send", "body"} \/ call[p].resp # None) => call[p].nsent = 1
        /\ call[p].req # None <=> call[p].pc = "send"
        /\ (call[p].pc = "done" /\ call[p].result.tag = "Err")
              => (call[p].req = None /\ borrowed # p)

\* a call has returned a transport error after handing over one request
C7_Witness ==
    \E p \in Procs :
        /\ call[p].pc = "done"
        /\ call[p].nsent = 1
        /\ call[p].result = [tag |-> "Err", kind |-> "Request"]

\* C8 as stated: of two nonces get_nonce returns in succession the later is
\* numerically greater than or equal to the earlier
C8_NonceNonDecreasing ==
    [][(last_nonce # None /\ last_nonce' # None)
         => ParseDecimal(last_nonce'.v.value) >= ParseDecimal(last_nonce.v.value)]_vars

\* C9 as stated, for two authenticated requests in succession: a request
\* handed to the transport never carries the ACCESS-NONCE value that the
\* authenticated request before it carried
C9_NonceNeverReused ==
    [][\A p \in Procs :
         (call[p].pc = "idle" /\ call'[p].pc = "send"
            /\ last_nonce # None /\ last_nonce.v.sent)
            => last_nonce.v.value \notin NonceOf(call'[p].req.v)]_vars

\* C10 as stated: an authenticated dispatch on a client with usable keys and
\* a well-formed URL never ends in an abort; its failures are error values
C10_AuthFailureIsReturned ==
    \A p \in Procs :
        (call[p].pc = "done" /\ call[p].use_auth /\ UrlParses(call[p].path)
           /\ HasKeys /\ ValidHeaderValue(access_key.v))
            => call[p].result.tag # "Panic"

\* C11: a request handed to the transport carries content-type:
\* application/json exactly when its method is POST or DELETE; a GET request
\* carries no content-type header, with or without authentication or params
C11_ContentTypeIffPostOrDelete ==
    \A p \in Procs :
        call[p].pc = "send"
            => LET req == call[p].req.v IN
               /\ CONTENT_TYPE \in DOMAIN req.headers
                     <=> req.method \in {"POST", "DELETE"}
               /\ CONTENT_TYPE \in DOMAIN req.headers
                     => req.headers[CONTENT_TYPE] = CONTENT_TYPE_VALUE_JSON
               /\ req.method = call[p].method

\* an unauthenticated DELETE without params is in flight and carries the
\* content-type header
C11_Witness ==
    \E p \in Procs :
        /\ call[p].pc = "send"
        /\ call[p].method = "DELETE"
        /\ ~call[p].use_auth
        /\ call[p].params = None
        /\ DOMAIN call[p].req.v.headers = {CONTENT_TYPE}

\* C12: a request in flight that was dispatched with use_auth = true
\* carries ACCESS-NONCE, ACCESS-SIGNATURE and ACCESS-KEY; ACCESS-KEY is the
\* client's access key, ACCESS-NONCE the decimal form of the clock reading
\* this call took, ACCESS-SIGNATURE the signature over that nonce and the
\* URL in flight; beyond these three it carries the content-type header at
\* most
C12_AuthHeadersComplete ==
    \A p \in Procs :
        (call[p].pc = "send" /\ call[p].use_auth)
            => LET req == call[p].req.v IN
               /\ AuthHeaderNames \subseteq DOMAIN req.headers
               /\ (DOMAIN req.headers) \ AuthHeaderNames \subseteq {CONTENT_TYPE}
               /\ req.headers[KEY] = access_key.v
               /\ req.headers[NONCE] = to_string(call[p].now.v)
               /\ req.headers[SIGNATURE] =
                    hex_encode(HmacSha256(secret_key.v,
                                          to_string(call[p].now.v) \o req.url))

\* an authenticated GET is in flight with exactly the three headers, the
\* nonce read from a clock standing at 10
C12_Witness ==
    \E p \in Procs :
        /\ call[p].pc = "send"
        /\ call[p].use_auth
        /\ call[p].method = "GET"
        /\ call[p].now = Some(10)
        /\ DOMAIN call[p].req.v.headers = AuthHeaderNames
        /\ call[p].req.v.headers[KEY] = "ak"

\* task p starts a call in this step
Starts(p) == call[p].pc = "idle" /\ call'[p].pc # "idle"

\* task p obtains the client and enters Client::request in this step
Dispatches(p) == Starts(p) /\ borrowed = 0

\* C13 as stated: a call started while another call on the same client is
\* suspended in its send or in reading the body runs without fault and
\* writes the marker
C13_ConcurrentCallsBothWriteMarker ==
    [][\A p \in Procs :
         (Starts(p) /\ borrowed # 0)
            => /\ call'[p].result.tag # "Panic"
               /\ last_request_time' = instant]_vars

\* C14: a dispatch sets the marker to the reading of the monotonic clock at
\* that dispatch, whether or not it goes on to send; the marker never
\* decreases, never runs ahead of the clock, and no step other than a
\* dispatch changes it
C14_MarkerIsTimeOfLastDispatch ==
    [][/\ \A p \in Procs : Dispatches(p) => last_request_time' = instant
       /\ last_request_time' >= last_request_time
       /\ last_request_time' <= instant'
       /\ last_request_time' # last_request_time
             => \E p \in Procs : Dispatches(p)]_vars

\* the marker stands at 1, written by a dispatch that ended with the
\* unsupported-method error without sending
C14_Witness ==
    \E p \in Procs :
        /\ last_request_time = 1
        /\ call[p].pc = "done"
        /\ call[p].result = UnsupportedMethodError
        /\ call[p].nsent = 0

\* C16: a dispatch with use_auth = false, a supported method and a path
\* that forms a URL, on a client constructed without credentials, hands its
\* request to the transport: it does not end at its start with an abort or
\* an error, and the request carries no ACCESS-* header
C16_NoAuthNeedsNoCredentials ==
    \A p \in Procs :
        (call[p].method \in {"GET", "POST", "DELETE"} /\ ~call[p].use_auth
           /\ UrlParses(call[p].path) /\ access_key = None /\ secret_key = None)
            => /\ call[p].pc = "send"
               /\ call[p].nsent = 1
               /\ (DOMAIN call[p].req.v.headers) \cap AuthHeaderNames = {}

\* a client without credentials has an unauthenticated POST with params in
\* flight
C16_Witness ==
    \E p \in Procs :
        /\ access_key = None
        /\ secret_key = None
        /\ call[p].pc = "send"
        /\ call[p].nsent = 1
        /\ ~call[p].use_auth
        /\ call[p].method = "POST"
        /\ call[p].params # None
        /\ (DOMAIN call[p].req.v.headers) \cap AuthHeaderNames = {}

\* C17: a dispatch with use_auth = false takes no reading of the nonce
\* source; a dispatch with use_auth = true whose URL was formed takes one
\* reading and get_nonce returns at most one value; the value returned is
\* the ACCESS-NONCE of the request and the prefix of the signed message; it
\* comes from the reading of this dispatch, not from an earlier one, and
\* the credentials the client holds stay as they were
C17_OneNonceReadPerAuthDispatch ==
    [][\A p \in Procs :
         Dispatches(p) =>
           LET c == call'[p]
               out == request_until_send(access_key, secret_key,
                                         IF c.now = None THEN 0 ELSE c.now.v,
                                         c.method, c.path, c.params, c.use_auth)
           IN
           /\ Len(out.nonces) <= 1
           /\ access_key' = access_key /\ secret_key' = secret_key
           /\ ~c.use_auth =>
                 /\ c.now = None /\ out.nonces = <<>> /\ last_nonce' = last_nonce
                 /\ c.pc = "send" => NONCE \notin DOMAIN c.req.v.headers
           /\ (c.use_auth /\ UrlParses(c.path)) =>
                 /\ c.now # None
                 /\ c.now.v >= 0 =>
                       /\ out.nonces = <<to_string(c.now.v)>>
                       /\ last_nonce' = Some([value |-> to_string(c.now.v),
                                              sent |-> c.pc = "send"])
                 /\ c.pc = "send" =>
                       LET nonce == c.req.v.headers[NONCE]
                           message == SignedMessage(c.req.v.headers[SIGNATURE])
                       IN  /\ nonce = to_string(c.now.v)
                           /\ SubSeq(message, 1, Len(nonce)) = nonce
                           /\ SubSeq(message, Len(nonce) + 1, Len(message))
                                 = c.req.v.url]_vars

\* an authenticated request is in flight whose ACCESS-NONCE is the decimal
\* form of the reading 10 its dispatch took
C17_Witness ==
    \E p \in Procs :
        /\ call[p].pc = "send"
        /\ call[p].use_auth
        /\ call[p].now = Some(10)
        /\ call[p].req.v.headers[NONCE] = <<"1", "0">>
        /\ last_nonce = Some([value |-> <<"1", "0">>, sent |-> TRUE])

\* the calls a task has in progress on the client
InProgress(c) == {p \in Procs : c[p].pc \in {"send", "body"}}

\* C20: at most one call is in progress on the client, and the task whose
\* call it is holds the exclusive borrow from the start of the call to the
\* end of the decoding of the response; a call started meanwhile aborts on
\* borrow_mut (already borrowed) and leaves the marker, the nonce source,
\* the borrow and the transport untouched
C20_OneDispatchAtATime ==
    [][/\ Cardinality(InProgress(call')) <= 1
       /\ \A p \in Procs : p \in InProgress(call') <=> borrowed' = p
       /\ \A p \in Procs :
            (Starts(p) /\ InProgress(call) # {})
               => /\ call'[p].pc = "done"
                  /\ call'[p].result = [tag |-> "Panic", error |-> "already borrowed"]
                  /\ call'[p].nsent = 0
                  /\ call'[p].req = None
                  /\ call'[p].now = None
                  /\ last_request_time' = last_request_time
                  /\ last_nonce' = last_nonce
                  /\ borrowed' = borrowed
                  /\ \A q \in Procs \ {p} : call'[q] = call[q]]_vars

\* a call started while the other task's call was reading the body of its
\* response has aborted on the borrow; the marker still stands at the time
\* of the other call's dispatch although the clock has moved on
C20_Witness ==
    \E p, q \in Procs :
        /\ call[q].pc = "body"
        /\ borrowed = q
        /\ call[p].pc = "done"
        /\ call[p].result = [tag |-> "Panic", error |-> "already borrowed"]
        /\ last_request_time = 0
        /\ instant = 1

\* C15: parsing the string form of a SortOrder value yields that value, and
\* from_str succeeds on the strings "asc" and "desc" only, failing with the
\* undefined-type error on every other string
C15_SortOrderRoundTrip ==
    /\ sort_order.op = "round_trip"
          => sort_order.result = [tag |-> "Ok", value |-> sort_order.value.v]
    /\ sort_order.op = "from_str"
          => /\ sort_order.string = <<"a", "s", "c">>
                   => sort_order.result = [tag |-> "Ok", value |-> "Asc"]
             /\ sort_order.string = <<"d", "e", "s", "c">>
                   => sort_order.result = [tag |-> "Ok", value |-> "Desc"]
             /\ sort_order.string \notin {<<"a", "s", "c">>, <<"d", "e", "s", "c">>}
                   => sort_order.result =
                        [tag |-> "Err", value |-> "undefined SortOrder type"]

\* the string form of Desc was parsed back
C15_Witness ==
    /\ sort_order.op = "round_trip"
    /\ sort_order.value = Some("Desc")
    /\ sort_order.string = <<"d", "e", "s", "c">>
    /\ sort_order.result.tag = "Ok"

PrivateFacades == {"Order", "Account", "WithdrawsJpy"}

\* C18: a call made through a method of Order, Account or WithdrawsJpy
\* enters the client with use_auth = true, and a call made through a method
\* of Public with use_auth = false, whatever the method's arguments; the
\* request in flight carries the ACCESS-* headers in the first case and
\* none of them in the second
C18_FacadeFixesAuthFlag ==
    \A p \in Procs :
        call[p].method # ""
            => /\ endpoint # None
               /\ endpoint.v.facade \in Facades
               /\ call[p].entry = "request_and_get_json"
               /\ call[p].use_auth <=> endpoint.v.facade \in PrivateFacades
               /\ ~call[p].use_auth <=> endpoint.v.facade = "Public"
               /\ call[p].pc = "send"
                     => IF endpoint.v.facade \in PrivateFacades
                        THEN AuthHeaderNames \subseteq DOMAIN call[p].req.v.headers
                        ELSE AuthHeaderNames \cap DOMAIN call[p].req.v.headers = {}

\* WithdrawsJpy::withdraws has a request in flight, with the ACCESS-* headers
C18_Witness ==
    \E p \in Procs :
        /\ call[p].pc = "send"
        /\ endpoint # None
        /\ endpoint.v.m = "withdraws"
        /\ endpoint.v.facade = "WithdrawsJpy"
        /\ call[p].use_auth
        /\ DOMAIN call[p].req.v.headers = AuthHeaderNames

NewOrderMethods ==
    {"new_limit_buy", "new_limit_sell", "new_stop_limit_buy", "new_stop_limit_sell",
     "new_market_buy", "new_market_sell", "new_stop_market_buy",
     "new_stop_market_sell"}

\* the query parameters of a new order, by method: the pair, the order
\* type, the prices by role, and stop_loss_rate for the stop variants
NewOrderParams(i) ==
    {<<"pair", <<CoinPair_as_str(i.pair)>> >>}
    \cup (CASE i.m \in {"new_limit_buy", "new_stop_limit_buy"} ->
                 {<<"order_type", <<"buy">> >>,
                  <<"rate", PriceType_to_string(i.rate)>>,
                  <<"amount", PriceType_to_string(i.amount)>>}
            [] i.m \in {"new_limit_sell", "new_stop_limit_sell"} ->
                 {<<"order_type", <<"sell">> >>,
                  <<"rate", PriceType_to_string(i.rate)>>,
                  <<"amount", PriceType_to_string(i.amount)>>}
            [] i.m \in {"new_market_buy", "new_stop_market_buy"} ->
                 {<<"order_type", <<"market_buy">> >>,
                  <<"market_buy_amount", PriceType_to_string(i.amount)>>}
            [] i.m \in {"new_market_sell", "new_stop_market_sell"} ->
                 {<<"order_type", <<"market_sell">> >>,
                  <<"amount", PriceType_to_string(i.amount)>>})
    \cup (IF i.m \in {"new_stop_limit_buy", "new_stop_limit_sell",
                      "new_stop_market_buy", "new_stop_market_sell"}
          THEN {<<"stop_loss_rate", PriceType_to_string(i.stop_loss_rate)>>}
          ELSE {})

\* C19: a call of a new-order method enters the client as an authenticated
\* POST to /api/exchange/orders with exactly the parameters of its kind,
\* each once; it hands at most one request to the transport, and one
\* whenever the authentication step runs to its end; that request is a POST
\* whose URL carries the parameters in its query and which has no body
C19_NewOrderRequests ==
    \A p \in Procs :
        (call[p].method # "" /\ endpoint # None /\ endpoint.v.m \in NewOrderMethods)
            => LET c == call[p]
                   i == endpoint.v
               IN
               /\ c.method = "POST"
               /\ c.path = "/api/exchange/orders"
               /\ c.use_auth
               /\ c.params # None
               /\ Len(c.params.v) = Cardinality(NewOrderParams(i))
               /\ {c.params.v[k] : k \in 1..Len(c.params.v)} = NewOrderParams(i)
               /\ c.nsent <= 1
               /\ ReachesMethodMatch(c) => c.pc = "send"
               /\ c.pc = "send"
                     => /\ c.nsent = 1
                        /\ DOMAIN c.req.v = {"method", "url", "headers"}
                        /\ c.req.v.method = "POST"
                        /\ c.req.v.url =
                             <<API_BASE, "/api/exchange/orders", "?">>
                                \o EncodePairs(c.params.v)
                        /\ AuthHeaderNames \subseteq DOMAIN c.req.v.headers

\* new_stop_market_buy has a request in flight whose query starts with the
\* stop_loss_rate and goes on with the market_buy_amount
C19_Witness ==
    \E p \in Procs :
        /\ call[p].pc = "send"
        /\ endpoint # None
        /\ endpoint.v.m = "new_stop_market_buy"
        /\ SubSeq(call[p].req.v.url, 1, 14) =
             <<API_BASE, "/api/exchange/orders", "?", "stop_loss_rate", "=", "3",
               "&", "market_buy_amount", "=", "2", ".", "5", "&", "order_type">>

\* C21: the requests that carry a nonce are handed to the transport in the
\* order in which their nonces were generated: no request is handed over
\* after a request whose nonce was generated later
C21_HandOverInGenerationOrder ==
    \A i, j \in DOMAIN transport.handed :
        i < j => transport.handed[i] <= transport.handed[j]

\* three nonces were generated by calls of two tasks; the first and the
\* third went out with a request, in that order, the second was generated
\* by a call that sent nothing, and the request of the third is in flight
C21_Witness ==
    /\ transport.generated = 3
    /\ transport.handed = <<1, 3>>
    /\ transport.carried = [p \in Procs |-> IF p = 2 THEN 3 ELSE 0]
    /\ call[2].pc = "send"
    /\ NonceOf(call[2].req.v) # {}

\* C22: a dispatch that ends without handing a request to the transport,
\* be it on the URL, on the credentials, on the clock or on the method, has
\* set the marker to the reading of the monotonic clock at that dispatch all
\* the same; the marker is never earlier than the last hand-over
C22_MarkerWrittenBeforeAnyFailure ==
    [][/\ \A p \in Procs :
            (Dispatches(p) /\ call'[p].nsent = 0) => last_request_time' = instant
       /\ transport'.sent_at # None
             => transport'.sent_at.v <= last_request_time']_vars

\* a request went out at 0; a later dispatch on the client without keys
\* aborted on the missing credentials, sending nothing, and left the marker
\* at 1
C22_Witness ==
    \E p \in Procs :
        /\ transport.sent_at = Some(0)
        /\ last_request_time = 1
        /\ call[p].pc = "done"
        /\ call[p].nsent = 0
        /\ call[p].use_auth
        /\ call[p].result = [tag |-> "Panic", error |-> "unwrap on None"]

====
